---- MODULE Spec2Model ----
(***************************************************************************)
(* Model of package process of ppltools/gotests: the wrapper that         *)
(* validates the options, calls gotests.GenerateTests for every path and  *)
(* writes or prints what it returns.                                      *)
(*                                                                        *)
(* The repository holds two versions of the package:                      *)
(*   "fmt"  : src/gotests/process/process.go, which reports with          *)
(*            fmt.Fprintf(out, ...) and returns after an error;           *)
(*   "cmsg" : src/unnamed/part_000, which sets cmsg.Default.Stderr = out  *)
(*            and reports with cmsg.Die / cmsg.Warn / cmsg.Info.          *)
(* impl says which one a behaviour runs.                                  *)
(*                                                                        *)
(* github.com/ppltools/cmsg and github.com/ppltools/gotests are imported  *)
(* libraries.  What the model takes from them:                            *)
(*   - gotests.GenerateTests(path, opt) returns either an error or a      *)
(*     list of generated tests (possibly empty); which one is the         *)
(*     environment's choice;                                              *)
(*   - ioutil.WriteFile succeeds or fails, the environment's choice;      *)
(*   - cmsg.Die writes one error line to cmsg.Default.Stderr and ends the *)
(*     process (the callers have no return after it and rely on that);    *)
(*     cmsg.Warn and cmsg.Info write one line to cmsg.Default.Stderr.     *)
(***************************************************************************)
EXTENDS Naturals, Sequences, FiniteSets, TLC

VARIABLES impl, active, opts, args, pc, idx, gopt, Stderr, exited, io, calls

vars == <<impl, active, opts, args, pc, idx, gopt, Stderr, exited, io, calls>>

(***************************************************************************)
(* Bounds of the model.                                                   *)
(***************************************************************************)
MaxArgs == 2
MaxFiles == 1
MaxFuncs == 2

Impls == {"fmt", "cmsg"}
Runs == {"A", "B"}
Paths == {"a.go", "b.go"}
NIL == "nil"
OsStderr == "os.Stderr"
Disk == "disk"

(***************************************************************************)
(* Program constants.                                                     *)
(***************************************************************************)
newFilePerm == 420  \* os.FileMode 0644
msgInfo == "0;32"
msgError == "0;31"
MISSING == "%!s(MISSING)"

(***************************************************************************)
(* Regular expressions: a pattern is a tuple of characters.  Of           *)
(* regexp.Compile the model keeps the parenthesis check: a pattern        *)
(* compiles iff its parentheses are balanced.  A *regexp.Regexp is a set:  *)
(* {} is the nil pointer, {s} the compiled pattern s.                     *)
(***************************************************************************)
Patterns == { <<>>, <<"(", "P", ")">>, <<"(", "P">> }

RECURSIVE Balanced(_, _)
Balanced(s, depth) ==
    IF s = <<>> THEN depth = 0
    ELSE IF Head(s) = "(" THEN Balanced(Tail(s), depth + 1)
    ELSE IF Head(s) = ")" THEN depth > 0 /\ Balanced(Tail(s), depth - 1)
    ELSE Balanced(Tail(s), depth)

\* regexp.Compile(s): [re, err]
Compile(s) ==
    IF Balanced(s, 0) THEN [re |-> {s}, err |-> NIL]
    ELSE [re |-> {}, err |-> "error parsing regexp"]

\* parseRegexp(s): the empty string is no pattern and no error
parseRegexp(s) ==
    IF s = <<>> THEN [re |-> {}, err |-> NIL]
    ELSE LET c == Compile(s) IN
         IF c.err # NIL THEN [re |-> {}, err |-> c.err]
         ELSE [re |-> c.re, err |-> NIL]

(***************************************************************************)
(* Options (process.Options) and the inputs of Run.                       *)
(* PrintInputs and Subtests are copied to the engine's options and read   *)
(* by nothing in this package; the model leaves them out.                 *)
(***************************************************************************)
OptionsSet ==
    [OnlyFuncs : Patterns, ExclFuncs : Patterns, ExportedFuncs : BOOLEAN,
     AllFuncs : BOOLEAN, WriteOutput : BOOLEAN, AllowError : BOOLEAN]

ZeroOptions ==
    [OnlyFuncs |-> <<>>, ExclFuncs |-> <<>>, ExportedFuncs |-> FALSE,
     AllFuncs |-> FALSE, WriteOutput |-> FALSE, AllowError |-> FALSE]

RECURSIVE SeqsUpTo(_, _)
SeqsUpTo(S, n) ==
    IF n = 0 THEN { <<>> }
    ELSE LET shorter == SeqsUpTo(S, n - 1) IN
         shorter \cup { Append(s, x) : s \in shorter, x \in S }

ArgsSet == SeqsUpTo(Paths, MaxArgs)

(***************************************************************************)
(* What a message is about: a path, the k-th file generated for it, the   *)
(* j-th test function of that file, or an error text.                     *)
(***************************************************************************)
Subj(src, k, j, what) == [src |-> src, k |-> k, j |-> j, what |-> what]

(***************************************************************************)
(* The output of the program.  One entry of io is one Fprintf / Write /   *)
(* cmsg / WriteFile call:                                                 *)
(*   by, at : the Run invocation and the index in args it was working on  *)
(*            (0 before the loop); history only;                          *)
(*   to     : the writer that received it (the out of invocation r is     *)
(*            called r), or Disk;                                         *)
(*   kind   : "fmt3"  fmt.Fprintf(out, msgFmt, ...), slots = the three %s *)
(*            "raw"   fmt.Fprintf(out, err.Error()), slots = <<err>>      *)
(*            "bytes" out.Write(t.Output), slots = <<>>                   *)
(*            "Die", "Warn", "Info"  the cmsg call, slots = <<format>>    *)
(*            "WriteFile"  ioutil.WriteFile(subj, data, perm)             *)
(*   subj   : what is appended to the text or fills the format's verbs;   *)
(*   nl     : the text ends with a newline;                               *)
(*   data, perm, ok : of a WriteFile, the bytes, the mode and whether it  *)
(*            succeeded.                                                  *)
(***************************************************************************)
Event(by, at, to, kind, slots, subj, nl, data, perm, ok) ==
    [by |-> by, at |-> at, to |-> to, kind |-> kind, slots |-> slots,
     subj |-> subj, nl |-> nl, data |-> data, perm |-> perm, ok |-> ok]

Msg(by, at, to, kind, slots, subj, nl) ==
    Event(by, at, to, kind, slots, subj, nl, Subj("", 0, 0, ""), 0, TRUE)

\* fmt.Fprintf(out, msgFmt, a...): msgFmt = "\033[%sm%s\033[m%s\n" has three
\* verbs; a verb without an operand prints %!s(MISSING).
Fprintf3(by, at, out, a, subj) ==
    Msg(by, at, out, "fmt3",
        [i \in 1..3 |-> IF i <= Len(a) THEN a[i] ELSE MISSING], subj, TRUE)

\* fmt.Fprintf(out, err.Error()): the error text is the format; nothing is
\* added to it, no colour, no prefix, no newline.
FprintfRaw(by, at, out, err) ==
    Msg(by, at, out, "raw", <<err>>, Subj("", 0, 0, err), FALSE)

\* out.Write(t.Output)
WriteBytes(by, at, out, output) == Msg(by, at, out, "bytes", <<>>, output, FALSE)

\* cmsg.Die / cmsg.Warn / cmsg.Info(format, a...): one line on the sink
CmsgLine(by, at, sink, level, format, subj) ==
    Msg(by, at, sink, level, <<format>>, subj, TRUE)

\* the level a reader of the stream sees
LevelOf(m) ==
    CASE m.kind = "fmt3" /\ m.slots[1] = msgError /\ m.slots[2] = "[ERROR]\t" -> "error"
      [] m.kind = "fmt3" /\ m.slots[1] = msgInfo /\ m.slots[2] = "[INFO]\t" -> "info"
      [] m.kind = "Die" -> "error"
      [] m.kind = "Warn" -> "warn"
      [] m.kind = "Info" -> "info"
      [] m.kind = "bytes" -> "bytes"
      [] OTHER -> "none"

\* a status line: coloured, prefixed, every verb filled, newline-terminated
WellFormed(m) ==
    /\ m.nl
    /\ LevelOf(m) \in {"error", "warn", "info"}
    /\ \A i \in DOMAIN m.slots : m.slots[i] # MISSING

(***************************************************************************)
(* The engine.  gotests.GenerateTests(path, opt) returns (gts, err).      *)
(* A GeneratedTest has Path, Functions (here: their TestName()s) and      *)
(* Output.  The k-th file generated for a path, with n functions, is      *)
(* GeneratedTest(path, k, n); the files of one result have the same       *)
(* number of functions.                                                   *)
(***************************************************************************)
GeneratedTest(path, k, n) ==
    [Path |-> Subj(path, k, 0, "path"),
     Functions |-> [j \in 1..n |-> Subj(path, k, j, "test")],
     Output |-> Subj(path, k, n, "output")]

EngineResults(path) ==
    { [err |-> "parse failed", gts |-> <<>>] } \cup
    { [err |-> NIL, gts |-> [k \in 1..nf |-> GeneratedTest(path, k, n)]] :
        nf \in 0..MaxFiles, n \in 1..MaxFuncs }

\* the outcomes of ioutil.WriteFile for the files of one path
WriteResults == [1..MaxFiles -> BOOLEAN]

\* ioutil.WriteFile(path, data, perm): the attempt and whether it succeeded
WriteFile(by, at, path, data, perm, ok) ==
    Event(by, at, Disk, "WriteFile", <<>>, path, FALSE, data, perm, ok)

\* the options handed to the engine (gotests.Options), or nil
GotestsOptions(only, excl, o) ==
    [nil |-> FALSE, Only |-> only, Exclude |-> excl, Exported |-> o.ExportedFuncs,
     AllowError |-> o.AllowError]

NilGotestsOptions ==
    [nil |-> TRUE, Only |-> {}, Exclude |-> {}, Exported |-> FALSE, AllowError |-> FALSE]

RECURSIVE Flatten(_)
Flatten(ss) == IF ss = <<>> THEN <<>> ELSE Head(ss) \o Flatten(Tail(ss))

(***************************************************************************)
(* src/gotests/process/process.go                                         *)
(***************************************************************************)
\* NoMode with the negation of AllFuncs lost
NoModeSlip(opt) ==
    opt.OnlyFuncs = <<>> /\ opt.ExclFuncs = <<>> /\ ~opt.ExportedFuncs /\ opt.AllFuncs

NoMode(opt) ==
    opt.OnlyFuncs = <<>> /\ opt.ExclFuncs = <<>> /\ ~opt.ExportedFuncs /\ ~opt.AllFuncs

\* parseOptions without the check of the -excl pattern's error
parseOptionsNoExclCheck(by, out, opt) ==
    LET onlyRE == parseRegexp(opt.OnlyFuncs)
        exclRE == parseRegexp(opt.ExclFuncs)
        Err(text, e) == Fprintf3(by, 0, out, <<msgError, "[ERROR]\t", text>>, Subj("", 0, 0, e))
    IN  IF opt.OnlyFuncs = <<>> /\ opt.ExclFuncs = <<>> /\ ~opt.ExportedFuncs /\ ~opt.AllFuncs
        THEN [io |-> <<Err("-> please specify either the -only, -excl, -export, or -all flag", "")>>,
              ret |-> NilGotestsOptions]
        ELSE IF onlyRE.err # NIL
        THEN [io |-> <<Err("-> invalid -only regex:", onlyRE.err)>>, ret |-> NilGotestsOptions]
        ELSE [io |-> <<>>, ret |-> GotestsOptions(onlyRE.re, exclRE.re, opt)]

\* parseOptions(out, opt): what it prints and what it returns
parseOptions(by, out, opt) ==
    LET onlyRE == parseRegexp(opt.OnlyFuncs)
        exclRE == parseRegexp(opt.ExclFuncs)
        Err(text, e) == Fprintf3(by, 0, out, <<msgError, "[ERROR]\t", text>>, Subj("", 0, 0, e))
    IN  IF NoMode(opt)
        THEN [io |-> <<Err("-> please specify either the -only, -excl, -export, or -all flag", "")>>,
              ret |-> NilGotestsOptions]
        ELSE IF onlyRE.err # NIL
        THEN [io |-> <<Err("-> invalid -only regex:", onlyRE.err)>>, ret |-> NilGotestsOptions]
        ELSE IF exclRE.err # NIL
        THEN [io |-> <<Err("-> invalid -excl regex:", exclRE.err)>>, ret |-> NilGotestsOptions]
        ELSE [io |-> <<>>, ret |-> GotestsOptions(onlyRE.re, exclRE.re, opt)]

\* outputTest without the return after a failed WriteFile
outputTestNoReturn(by, at, out, t, writeOutput, ok) ==
    (IF writeOutput
     THEN <<WriteFile(by, at, t.Path, t.Output, newFilePerm, ok)>>
          \o (IF ok THEN <<>>
              ELSE <<Fprintf3(by, at, out, <<msgError, "write failed">>, t.Path)>>)
     ELSE <<>>)
    \o [j \in 1..Len(t.Functions) |->
           Fprintf3(by, at, out, <<msgInfo, "[INFO]\t", "-> generated: ">>, t.Functions[j])]
    \o (IF ~writeOutput THEN <<WriteBytes(by, at, out, t.Output)>> ELSE <<>>)

\* outputTest(out, t, writeOutput), ok the outcome of WriteFile
outputTest(by, at, out, t, writeOutput, ok) ==
    IF writeOutput /\ ~ok
    THEN <<WriteFile(by, at, t.Path, t.Output, newFilePerm, FALSE),
           Fprintf3(by, at, out, <<msgError, "write failed">>, t.Path)>>
    ELSE (IF writeOutput
          THEN <<WriteFile(by, at, t.Path, t.Output, newFilePerm, TRUE)>>
          ELSE <<>>)
         \o [j \in 1..Len(t.Functions) |->
                Fprintf3(by, at, out, <<msgInfo, "[INFO]\t", "-> generated: ">>,
                         t.Functions[j])]
         \o (IF ~writeOutput THEN <<WriteBytes(by, at, out, t.Output)>> ELSE <<>>)

\* generateTests that says nothing when the engine returns no test
generateTestsSilent(by, at, out, path, writeOutput, res, wr) ==
    IF res.err # NIL
    THEN <<FprintfRaw(by, at, out, res.err)>>
    ELSE Flatten([k \in 1..Len(res.gts) |->
                    outputTest(by, at, out, res.gts[k], writeOutput, wr[k])])

\* generateTests(out, path, writeOutput, opt), res what the engine returned
generateTests(by, at, out, path, writeOutput, res, wr) ==
    IF res.err # NIL
    THEN <<FprintfRaw(by, at, out, res.err)>>
    ELSE IF Len(res.gts) = 0
    THEN <<Fprintf3(by, at, out, <<msgInfo, "[INFO]\t", "-> no tests generated for: ">>,
                    Subj(path, 0, 0, "path"))>>
    ELSE Flatten([k \in 1..Len(res.gts) |->
                    outputTest(by, at, out, res.gts[k], writeOutput, wr[k])])

(***************************************************************************)
(* src/unnamed/part_000                                                   *)
(***************************************************************************)
\* parseOptions(opt): cmsg.Die ends the process at the first failed check
parseOptionsCmsg(by, sink, opt) ==
    LET onlyRE == parseRegexp(opt.OnlyFuncs)
        exclRE == parseRegexp(opt.ExclFuncs)
        Die(format, e) == CmsgLine(by, 0, sink, "Die", format, Subj("", 0, 0, e))
    IN  IF NoMode(opt)
        THEN [io |-> <<Die("-> please specify either the -only, -excl, -export, or -all flag", "")>>,
              died |-> TRUE, ret |-> NilGotestsOptions]
        ELSE IF onlyRE.err # NIL
        THEN [io |-> <<Die("-> invalid -only regex: %s", onlyRE.err)>>,
              died |-> TRUE, ret |-> NilGotestsOptions]
        ELSE IF exclRE.err # NIL
        THEN [io |-> <<Die("-> invalid -excl regex: %s", exclRE.err)>>,
              died |-> TRUE, ret |-> NilGotestsOptions]
        ELSE [io |-> <<>>, died |-> FALSE, ret |-> GotestsOptions(onlyRE.re, exclRE.re, opt)]

\* outputTest(t, writeOutput), ok the outcome of WriteFile
outputTestCmsg(by, at, sink, t, writeOutput, ok) ==
    IF writeOutput /\ ~ok
    THEN [io |-> <<WriteFile(by, at, t.Path, t.Output, newFilePerm, FALSE),
                    CmsgLine(by, at, sink, "Die", "-> write file %s failed: %s", t.Path)>>,
          died |-> TRUE]
    ELSE [io |-> (IF writeOutput
                  THEN <<WriteFile(by, at, t.Path, t.Output, newFilePerm, TRUE)>>
                  ELSE <<>>)
                 \o [j \in 1..Len(t.Functions) |->
                        CmsgLine(by, at, sink, "Info", "-> generated: %s", t.Functions[j])],
          died |-> FALSE]

\* for _, t := range gts { outputTest(t, writeOutput) }, from the k-th on
RECURSIVE outputTestsCmsg(_, _, _, _, _, _, _)
outputTestsCmsg(by, at, sink, gts, k, writeOutput, wr) ==
    IF k > Len(gts) THEN [io |-> <<>>, died |-> FALSE]
    ELSE LET one == outputTestCmsg(by, at, sink, gts[k], writeOutput, wr[k])
             rest == outputTestsCmsg(by, at, sink, gts, k + 1, writeOutput, wr)
         IN  IF one.died THEN one
             ELSE [io |-> one.io \o rest.io, died |-> rest.died]

\* generateTests(path, writeOutput, opt), res what the engine returned
generateTestsCmsg(by, at, sink, path, writeOutput, res, wr) ==
    IF res.err # NIL
    THEN [io |-> <<CmsgLine(by, at, sink, "Die", "-> generate test failed: %s",
                            Subj("", 0, 0, res.err))>>,
          died |-> TRUE]
    ELSE LET warn == IF Len(res.gts) = 0
                     THEN <<CmsgLine(by, at, sink, "Warn", "-> no tests generated for: %s",
                                     Subj(path, 0, 0, "path"))>>
                     ELSE <<>>
             loop == outputTestsCmsg(by, at, sink, res.gts, 1, writeOutput, wr)
         IN  [io |-> warn \o loop.io, died |-> loop.died]

(***************************************************************************)
(* State.                                                                 *)
(*   impl    which version of the package runs                            *)
(*   active  the Run invocations of the behaviour; invocation r has       *)
(*           out = writer r, options opts[r] and paths args[r]            *)
(*   pc      "call" before Run, "loop" in its for loop at args[idx],      *)
(*           "returned", or "died" (this invocation called cmsg.Die)      *)
(*   gopt    the *gotests.Options parseOptions returned                   *)
(*   Stderr  cmsg.Default.Stderr, one per process                         *)
(*   exited  the process has ended (os.Exit in cmsg.Die)                  *)
(*   io      everything written to a writer or to a file, in order        *)
(*   calls   the gotests.GenerateTests calls and their results, in order  *)
(***************************************************************************)
NilInput == [nil |-> TRUE, val |-> ZeroOptions]

\* every *Options: nil, or any combination of the fields
Inputs == { NilInput } \cup { [nil |-> FALSE, val |-> o] : o \in OptionsSet }

\* options that parseOptions accepts, in both output and error modes
PathInputs ==
    { [nil |-> FALSE, val |-> [ZeroOptions EXCEPT !.AllFuncs = TRUE, !.WriteOutput = w,
                                                  !.AllowError = e]] :
        w \in BOOLEAN, e \in BOOLEAN }

\* the inputs of the invocations of a concurrent behaviour
ConcInputs ==
    { NilInput } \cup
    { [nil |-> FALSE, val |-> [ZeroOptions EXCEPT !.OnlyFuncs = p, !.AllFuncs = TRUE,
                                                  !.WriteOutput = w]] :
        p \in Patterns, w \in BOOLEAN }

OnePathArgs == SeqsUpTo({"a.go"}, MaxArgs)

InitWith(runs, inputs, argsSet) ==
    /\ impl \in Impls
    /\ active = runs
    /\ \E o \in [runs -> inputs], a \in [runs -> argsSet] :
         /\ opts = [r \in Runs |-> IF r \in runs THEN o[r] ELSE NilInput]
         /\ args = [r \in Runs |-> IF r \in runs THEN a[r] ELSE <<>>]
    /\ pc = [r \in Runs |-> "call"]
    /\ idx = [r \in Runs |-> 0]
    /\ gopt = [r \in Runs |-> NilGotestsOptions]
    /\ Stderr = OsStderr
    /\ exited = FALSE
    /\ io = <<>>
    /\ calls = <<>>

\* one call of Run, with any options
Init == InitWith({"A"}, Inputs, OnePathArgs)

\* one call of Run with accepted options, over any paths
InitPaths == InitWith({"A"}, PathInputs, ArgsSet)

\* two calls of Run in two goroutines
InitConc == InitWith(Runs, ConcInputs, OnePathArgs)

\* if opts == nil { opts = &Options{} }
Effective(r) == IF opts[r].nil THEN ZeroOptions ELSE opts[r].val

\* Run that looks at args before it parses the options
RunArgsFirst(r) ==
    /\ impl = "fmt" /\ ~exited /\ pc[r] = "call"
    /\ LET p == parseOptions(r, r, Effective(r)) IN
       IF Len(args[r]) = 0
       THEN /\ io' = Append(io, Fprintf3(r, 0, r,
                         <<msgError, "[ERROR]\t",
                           "-> please specify a file or directory containing the source">>,
                         Subj("", 0, 0, "")))
            /\ pc' = [pc EXCEPT ![r] = "returned"]
            /\ UNCHANGED <<idx, gopt>>
       ELSE IF p.ret.nil
       THEN /\ io' = io \o p.io
            /\ pc' = [pc EXCEPT ![r] = "returned"]
            /\ UNCHANGED <<idx, gopt>>
       ELSE /\ pc' = [pc EXCEPT ![r] = "loop"]
            /\ idx' = [idx EXCEPT ![r] = 1]
            /\ gopt' = [gopt EXCEPT ![r] = p.ret]
            /\ UNCHANGED io
    /\ UNCHANGED <<impl, active, opts, args, Stderr, exited, calls>>

\* Run of process.go, up to its for loop
Run(r) ==
    /\ impl = "fmt" /\ ~exited /\ pc[r] = "call"
    /\ LET p == parseOptions(r, r, Effective(r)) IN
       IF p.ret.nil
       THEN /\ io' = io \o p.io
            /\ pc' = [pc EXCEPT ![r] = "returned"]
            /\ UNCHANGED <<idx, gopt>>
       ELSE IF Len(args[r]) = 0
       THEN /\ io' = Append(io, Fprintf3(r, 0, r,
                         <<msgError, "[ERROR]\t",
                           "-> please specify a file or directory containing the source">>,
                         Subj("", 0, 0, "")))
            /\ pc' = [pc EXCEPT ![r] = "returned"]
            /\ UNCHANGED <<idx, gopt>>
       ELSE /\ pc' = [pc EXCEPT ![r] = "loop"]
            /\ idx' = [idx EXCEPT ![r] = 1]
            /\ gopt' = [gopt EXCEPT ![r] = p.ret]
            /\ UNCHANGED io
    /\ UNCHANGED <<impl, active, opts, args, Stderr, exited, calls>>

\* one iteration of Run's loop in process.go: generateTests(out, path, ...)
Generate(r) ==
    /\ impl = "fmt" /\ ~exited /\ pc[r] = "loop"
    /\ \E res \in EngineResults(args[r][idx[r]]), wr \in WriteResults :
         LET path == args[r][idx[r]]
             e == generateTests(r, idx[r], r, path, Effective(r).WriteOutput, res, wr)
         IN  /\ calls' = Append(calls, [by |-> r, at |-> idx[r], path |-> path,
                                        opt |-> gopt[r], res |-> res])
             /\ io' = io \o e
    /\ IF idx[r] < Len(args[r])
       THEN idx' = [idx EXCEPT ![r] = idx[r] + 1] /\ UNCHANGED pc
       ELSE pc' = [pc EXCEPT ![r] = "returned"] /\ UNCHANGED idx
    /\ UNCHANGED <<impl, active, opts, args, gopt, Stderr, exited>>

\* Run of part_000, up to its for loop
RunCmsg(r) ==
    /\ impl = "cmsg" /\ ~exited /\ pc[r] = "call"
    /\ Stderr' = r
    /\ LET p == parseOptionsCmsg(r, r, Effective(r)) IN
       IF p.died
       THEN /\ io' = io \o p.io
            /\ pc' = [pc EXCEPT ![r] = "died"]
            /\ exited' = TRUE
            /\ UNCHANGED <<idx, gopt>>
       ELSE IF Len(args[r]) = 0
       THEN /\ io' = Append(io, CmsgLine(r, 0, r, "Die",
                         "-> please specify a file or directory containing the source",
                         Subj("", 0, 0, "")))
            /\ pc' = [pc EXCEPT ![r] = "died"]
            /\ exited' = TRUE
            /\ UNCHANGED <<idx, gopt>>
       ELSE /\ pc' = [pc EXCEPT ![r] = "loop"]
            /\ idx' = [idx EXCEPT ![r] = 1]
            /\ gopt' = [gopt EXCEPT ![r] = p.ret]
            /\ UNCHANGED <<io, exited>>
    /\ UNCHANGED <<impl, active, opts, args, calls>>

\* one iteration of Run's loop in part_000: generateTests(path, ...)
GenerateCmsg(r) ==
    /\ impl = "cmsg" /\ ~exited /\ pc[r] = "loop"
    /\ \E res \in EngineResults(args[r][idx[r]]), wr \in WriteResults :
         LET path == args[r][idx[r]]
             e == generateTestsCmsg(r, idx[r], Stderr, path, Effective(r).WriteOutput,
                                    res, wr)
         IN  /\ calls' = Append(calls, [by |-> r, at |-> idx[r], path |-> path,
                                        opt |-> gopt[r], res |-> res])
             /\ io' = io \o e.io
             /\ IF e.died
                THEN /\ exited' = TRUE
                     /\ pc' = [pc EXCEPT ![r] = "died"]
                     /\ UNCHANGED idx
                ELSE /\ UNCHANGED exited
                     /\ IF idx[r] < Len(args[r])
                        THEN idx' = [idx EXCEPT ![r] = idx[r] + 1] /\ UNCHANGED pc
                        ELSE pc' = [pc EXCEPT ![r] = "returned"] /\ UNCHANGED idx
    /\ UNCHANGED <<impl, active, opts, args, gopt, Stderr>>

Next ==
    \/ \E r \in active : Run(r)
    \/ \E r \in active : Generate(r)
    \/ \E r \in active : RunCmsg(r)
    \/ \E r \in active : GenerateCmsg(r)

Spec == Init /\ [][Next]_vars

SpecPaths == InitPaths /\ [][Next]_vars

SpecConc == InitConc /\ [][Next]_vars

(***************************************************************************)
(* Vocabulary of the properties.                                          *)
(***************************************************************************)
Done(r) == pc[r] \in {"returned", "died"}

IoOf(r) == { i \in DOMAIN io : io[i].by = r }

IoAt(r, i) == { n \in DOMAIN io : io[n].by = r /\ io[n].at = i }

CallsOf(r) == { c \in DOMAIN calls : calls[c].by = r }

\* a line for the reader, as opposed to generated bytes or a file
IsStatus(e) == e.kind \notin {"bytes", "WriteFile"}

\* the constant text of a line
Text(e) ==
    CASE e.kind = "fmt3" -> e.slots[3]
      [] e.kind \in {"Die", "Warn", "Info", "raw"} -> e.slots[1]
      [] OTHER -> ""

IsGenerated(e) == Text(e) \in {"-> generated: ", "-> generated: %s"}

IsNoTests(e) == Text(e) \in {"-> no tests generated for: ", "-> no tests generated for: %s"}

IsEmptyArgs(e) == Text(e) = "-> please specify a file or directory containing the source"

\* a line that reports an error, well formed or not
IsErrorReport(e) ==
    \/ e.kind \in {"Die", "raw"}
    \/ e.kind = "fmt3" /\ e.slots[1] = msgError

\* the number of filtering modes an Options selects
ModeCount(o) ==
    (IF o.OnlyFuncs # <<>> \/ o.ExclFuncs # <<>> THEN 1 ELSE 0)
    + (IF o.ExportedFuncs THEN 1 ELSE 0)
    + (IF o.AllFuncs THEN 1 ELSE 0)

FailsToCompile(s) == ~Balanced(s, 0)

\* no filtering mode, or a pattern that is no regular expression
ConfigError(o) ==
    ModeCount(o) = 0 \/ FailsToCompile(o.OnlyFuncs) \/ FailsToCompile(o.ExclFuncs)

(***************************************************************************)
(* C1: a Run call with no filtering mode (nil options included) or with   *)
(* an -only or -excl pattern that does not compile never enters the loop, *)
(* and once it has ended it has reported exactly one message, an error,   *)
(* has never called the engine, and has written no file and no bytes.     *)
(***************************************************************************)
C1_ConfigErrorOnce ==
    \A r \in active :
        ConfigError(Effective(r)) =>
            /\ pc[r] # "loop"
            /\ CallsOf(r) = {}
            /\ \A i \in IoOf(r) : io[i].kind \notin {"bytes", "WriteFile"}
            /\ Done(r) =>
                 /\ Cardinality(IoOf(r)) = 1
                 /\ \A i \in IoOf(r) : LevelOf(io[i]) = "error" /\ WellFormed(io[i])

\* a call with a mode, a malformed -excl pattern and paths to work on has ended
C1_Witness ==
    \E r \in active :
        /\ Done(r)
        /\ ModeCount(Effective(r)) > 0
        /\ ~FailsToCompile(Effective(r).OnlyFuncs)
        /\ FailsToCompile(Effective(r).ExclFuncs)
        /\ Len(args[r]) > 0

(***************************************************************************)
(* C2 as stated: whenever a path has been passed to the engine, exactly   *)
(* one of the three filtering modes (pattern pair, exported-only,         *)
(* all-functions) is configured in the options of that Run call.          *)
(***************************************************************************)
C2_ExactlyOneMode ==
    \A c \in DOMAIN calls : ModeCount(Effective(calls[c].by)) = 1

(***************************************************************************)
(* C2 amended: whenever a Run call is in its loop or has passed a path to *)
(* the engine, at least one of the three filtering modes is configured;   *)
(* the options the engine receives are non-nil.                           *)
(***************************************************************************)
C2_AtLeastOneMode ==
    /\ \A r \in active : pc[r] = "loop" => ModeCount(Effective(r)) >= 1
    /\ \A c \in DOMAIN calls :
          /\ ModeCount(Effective(calls[c].by)) >= 1
          /\ ~calls[c].opt.nil

\* a configuration with two modes at once has reached the engine
C2_Witness ==
    \E c \in DOMAIN calls :
        /\ Effective(calls[c].by).ExportedFuncs
        /\ Effective(calls[c].by).AllFuncs

(***************************************************************************)
(* C10: a Run call with no paths ends after exactly one message, an       *)
(* error, without calling the engine; the message is 'please specify a    *)
(* file or directory containing the source' if the options are valid and  *)
(* the configuration error, not that message, if they are not.            *)
(***************************************************************************)
C10_OptionsBeforeArgs ==
    \A r \in active :
        Done(r) /\ Len(args[r]) = 0 =>
            /\ CallsOf(r) = {}
            /\ Cardinality(IoOf(r)) = 1
            /\ \A i \in IoOf(r) :
                  /\ LevelOf(io[i]) = "error"
                  /\ IsEmptyArgs(io[i]) <=> ~ConfigError(Effective(r))

\* a call with invalid options and no paths has ended
C10_Witness ==
    \E r \in active : Done(r) /\ Len(args[r]) = 0 /\ ConfigError(Effective(r))

(***************************************************************************)
(* C9: in write mode every '-> generated' line comes after a successful   *)
(* WriteFile of the file that holds the test, in the same iteration; and  *)
(* after a failed WriteFile of a file an error is reported for it and no  *)
(* '-> generated' line names a function of that file.                     *)
(***************************************************************************)
SameFile(a, b) == a.src = b.src /\ a.k = b.k

C9_GeneratedOnlyIfStored ==
    /\ \A i \in DOMAIN io :
          IsStatus(io[i]) /\ IsGenerated(io[i]) /\ Effective(io[i].by).WriteOutput =>
              \E w \in 1..(i - 1) :
                  /\ io[w].kind = "WriteFile" /\ io[w].ok
                  /\ io[w].by = io[i].by /\ io[w].at = io[i].at
                  /\ SameFile(io[w].subj, io[i].subj)
    /\ \A w \in DOMAIN io :
          io[w].kind = "WriteFile" /\ ~io[w].ok =>
              /\ \E i \in (w + 1)..Len(io) :
                    /\ IsStatus(io[i]) /\ IsErrorReport(io[i])
                    /\ io[i].by = io[w].by /\ io[i].at = io[w].at
                    /\ io[i].subj = io[w].subj
              /\ \A i \in IoAt(io[w].by, io[w].at) :
                    IsStatus(io[i]) /\ IsGenerated(io[i]) => ~SameFile(io[i].subj, io[w].subj)

\* a WriteFile has failed
C9_Witness ==
    \E w \in DOMAIN io : io[w].kind = "WriteFile" /\ ~io[w].ok

(***************************************************************************)
(* C5: when the engine returns no test and no error for args[i], the      *)
(* call reports exactly one message for that path, 'no tests generated    *)
(* for: <path>', writes no file, and does not halt: once the call has     *)
(* ended, every later path was passed to the engine unless the call died  *)
(* on a path between the two.  ZeroOutcome(levels) states it with the     *)
(* message at one of the given levels.                                    *)
(***************************************************************************)
IsEmptyResult(c) == calls[c].res.err = NIL /\ Len(calls[c].res.gts) = 0

ZeroOutcome(levels) ==
    \A c \in DOMAIN calls :
        IsEmptyResult(c) =>
            LET r == calls[c].by
                i == calls[c].at
            IN  /\ Cardinality(IoAt(r, i)) = 1
                /\ \A n \in IoAt(r, i) :
                      /\ IsNoTests(io[n])
                      /\ io[n].subj.src = calls[c].path
                      /\ WellFormed(io[n])
                      /\ LevelOf(io[n]) \in levels
                /\ pc[r] = "died" => idx[r] > i
                /\ Done(r) =>
                      \A j \in (i + 1)..Len(args[r]) :
                          \/ \E d \in CallsOf(r) : calls[d].at = j
                          \/ pc[r] = "died" /\ idx[r] > i /\ idx[r] < j

\* C5 as stated: the message is at warning level
C5_WarningLevel == ZeroOutcome({"warn"})

\* C5 amended: the message is at a level below error, warning or info
C5_NotAnError == ZeroOutcome({"warn", "info"})

\* a path with no test was followed by a path passed to the engine
C5_Witness ==
    \E c \in DOMAIN calls :
        /\ IsEmptyResult(c)
        /\ \E d \in CallsOf(calls[c].by) : calls[d].at = calls[c].at + 1

(***************************************************************************)
(* C3: with AllowError = true, when the engine returns an error for       *)
(* args[i] the error is reported and, once the call has ended, every      *)
(* later path args[j], j > i, was passed to the engine.                   *)
(***************************************************************************)
IsErrorResult(c) == calls[c].res.err # NIL

C3_AllowErrorContinues ==
    \A c \in DOMAIN calls :
        IsErrorResult(c) /\ Effective(calls[c].by).AllowError =>
            LET r == calls[c].by
                i == calls[c].at
            IN  /\ \E n \in IoAt(r, i) : IsStatus(io[n]) /\ IsErrorReport(io[n])
                /\ Done(r) =>
                      \A j \in (i + 1)..Len(args[r]) : \E d \in CallsOf(r) : calls[d].at = j

(***************************************************************************)
(* C4: with AllowError = false, after the engine has returned an error    *)
(* for args[i] no later path is passed to the engine, and no file, status *)
(* line or generated bytes are produced for a later path.                 *)
(***************************************************************************)
C4_FirstErrorHalts ==
    \A c \in DOMAIN calls :
        IsErrorResult(c) /\ ~Effective(calls[c].by).AllowError =>
            LET r == calls[c].by
                i == calls[c].at
            IN  /\ \A d \in CallsOf(r) : calls[d].at <= i
                /\ \A n \in IoOf(r) : io[n].at <= i

(***************************************************************************)
(* C6: for every generated file t the engine returns (and whose turn      *)
(* comes before the process ends): with WriteOutput, t.Output is written  *)
(* to t.Path with mode 0644 and t.Output is not written to out; without   *)
(* WriteOutput, no file is written and t.Output is written to out.        *)
(***************************************************************************)
IsWriteOf(e, t) ==
    e.kind = "WriteFile" /\ e.subj = t.Path /\ e.data = t.Output /\ e.perm = newFilePerm

IsBytesOf(e, r, t) == e.kind = "bytes" /\ e.to = r /\ e.subj = t.Output

\* the loop over the files reached the k-th file of call c
Reached(c, k) ==
    \A n \in IoAt(calls[c].by, calls[c].at) :
        ~(io[n].kind = "WriteFile" /\ ~io[n].ok /\ io[n].subj.k < k /\ impl = "cmsg")

C6_OutputModeExclusive ==
    \A c \in DOMAIN calls :
        \A k \in 1..Len(calls[c].res.gts) :
            Reached(c, k) =>
                LET r == calls[c].by
                    t == calls[c].res.gts[k]
                    here == IoAt(r, calls[c].at)
                    writes == { n \in here : io[n].kind = "WriteFile" /\ io[n].subj = t.Path }
                    bytes == { n \in here : IsBytesOf(io[n], r, t) }
                IN  IF Effective(r).WriteOutput
                    THEN /\ Cardinality(writes) = 1
                         /\ \A n \in writes : IsWriteOf(io[n], t)
                         /\ bytes = {}
                    ELSE /\ writes = {}
                         /\ Cardinality(bytes) = 1

(***************************************************************************)
(* C7: over a run, every generated test function of a stored or printed   *)
(* file has exactly one '-> generated' line, every path without tests     *)
(* exactly one warning or info line, every error (configuration, empty    *)
(* argument list, generation, file write) exactly one well-formed,        *)
(* newline-terminated error line, and the lines of a call appear in the   *)
(* order of args, then of the returned files, then of their Functions.    *)
(***************************************************************************)
StatusAt(r, i) == { n \in IoAt(r, i) : IsStatus(io[n]) }

\* the k-th file of call c was reached and its WriteFile did not fail
Output(c, k) ==
    /\ Reached(c, k)
    /\ \A n \in IoAt(calls[c].by, calls[c].at) :
          ~(io[n].kind = "WriteFile" /\ ~io[n].ok /\ io[n].subj.k = k)

C7_GeneratedLines ==
    \A c \in DOMAIN calls :
        \A k \in 1..Len(calls[c].res.gts) :
            Output(c, k) =>
                \A j \in 1..Len(calls[c].res.gts[k].Functions) :
                    Cardinality({ n \in StatusAt(calls[c].by, calls[c].at) :
                                    /\ IsGenerated(io[n]) /\ WellFormed(io[n])
                                    /\ LevelOf(io[n]) = "info"
                                    /\ io[n].subj = calls[c].res.gts[k].Functions[j] }) = 1

C7_NoTestLines ==
    \A c \in DOMAIN calls :
        IsEmptyResult(c) =>
            /\ Cardinality(StatusAt(calls[c].by, calls[c].at)) = 1
            /\ \A n \in StatusAt(calls[c].by, calls[c].at) :
                  WellFormed(io[n]) /\ LevelOf(io[n]) \in {"warn", "info"}

C7_ErrorLines ==
    /\ \A r \in active :
          Done(r) /\ (ConfigError(Effective(r)) \/ Len(args[r]) = 0) =>
              /\ Cardinality(StatusAt(r, 0)) = 1
              /\ \A n \in StatusAt(r, 0) : WellFormed(io[n]) /\ LevelOf(io[n]) = "error"
    /\ \A c \in DOMAIN calls :
          IsErrorResult(c) =>
              /\ Cardinality(StatusAt(calls[c].by, calls[c].at)) = 1
              /\ \A n \in StatusAt(calls[c].by, calls[c].at) :
                    WellFormed(io[n]) /\ LevelOf(io[n]) = "error"
    /\ \A w \in DOMAIN io :
          io[w].kind = "WriteFile" /\ ~io[w].ok =>
              LET lines == { n \in StatusAt(io[w].by, io[w].at) :
                               IsErrorReport(io[n]) /\ io[n].subj = io[w].subj }
              IN  /\ Cardinality(lines) = 1
                  /\ \A n \in lines : WellFormed(io[n]) /\ LevelOf(io[n]) = "error"

Before(a, b) ==
    \/ a.at < b.at
    \/ a.at = b.at /\ a.subj.k < b.subj.k
    \/ a.at = b.at /\ a.subj.k = b.subj.k /\ a.subj.j <= b.subj.j

C7_Order ==
    \A m, n \in DOMAIN io :
        m < n /\ io[m].by = io[n].by /\ IsStatus(io[m]) /\ IsStatus(io[n]) =>
            Before(io[m], io[n])

C7_OneLinePerOutcome ==
    C7_GeneratedLines /\ C7_NoTestLines /\ C7_ErrorLines /\ C7_Order

(***************************************************************************)
(* C8: every status, warning or error message and all generated bytes of  *)
(* a Run call are delivered to that call's own out writer.                *)
(***************************************************************************)
C8_OwnWriter ==
    \A n \in DOMAIN io : io[n].kind # "WriteFile" => io[n].to = io[n].by

====
